---- MODULE Spec2Model ----
(***************************************************************************)
(* Model of scripts/md_to_pdf.py: the line classifier of convert_md_to_pdf *)
(* with its code and table buffers, parse_table, build_table_flowable,     *)
(* escape_xml and apply_inline_formatting.                                 *)
(*                                                                         *)
(* A text is a sequence of characters, each character a one-character      *)
(* string.  The non-ASCII characters the program tests for are written by  *)
(* code point ("U2550" is the box-drawing double horizontal, "U0060" the   *)
(* grave accent).  A tag that apply_inline_formatting inserts is one       *)
(* element holding the tag's whole text ("<b>"): it stands for that run of *)
(* characters.  None of the tags holds '*' or a grave accent and each is   *)
(* at least one character long, so the later substitutions match on a text *)
(* with tag elements exactly where they match on the flat string.          *)
(***************************************************************************)
EXTENDS Integers, Sequences, FiniteSets, TLC

VARIABLES lines, i, in_code_block, code_lines, in_table, table_lines, story,
          branch, pc, h_lines, h_rows, h_tbl, h_pc

vars == <<lines, i, in_code_block, code_lines, in_table, table_lines, story,
          branch, pc, h_lines, h_rows, h_tbl, h_pc>>

classifier_vars == <<lines, i, in_code_block, code_lines, in_table,
                     table_lines, story, branch, pc>>

harness_vars == <<h_lines, h_rows, h_tbl, h_pc>>

(***************************************************************************)
(* Bounds of the model and constants of the program.                       *)
(***************************************************************************)
MaxLines == 2

MaxTableLines == 3

WrapWidth == 95

ContentWidth == 650

(***************************************************************************)
(* str methods.                                                            *)
(***************************************************************************)
WS == {" ", "\t"}

Upper == {"A", "B", "C", "D", "E", "F", "G", "H", "I", "J", "K", "L", "M",
          "N", "O", "P", "Q", "R", "S", "T", "U", "V", "W", "X", "Y", "Z"}

Digits == {"0", "1", "2", "3", "4", "5", "6", "7", "8", "9"}

BoxChars == {"U2554", "U255A", "U2551", "U251C", "U2514", "U250C", "U2510",
             "U2502"}

SetMin(S) == CHOOSE x \in S : \A y \in S : x <= y

Rep(c, n) == [k \in 1..n |-> c]

Drop(s, n) == SubSeq(s, n + 1, Len(s))

RECURSIVE lstrip_chars(_, _)
lstrip_chars(s, cs) ==
  IF s # <<>> /\ Head(s) \in cs THEN lstrip_chars(Tail(s), cs) ELSE s

RECURSIVE rstrip_chars(_, _)
rstrip_chars(s, cs) ==
  IF s # <<>> /\ s[Len(s)] \in cs
  THEN rstrip_chars(SubSeq(s, 1, Len(s) - 1), cs) ELSE s

strip(s) == rstrip_chars(lstrip_chars(s, WS), WS)

lstrip_char(s, c) == lstrip_chars(s, {c})

startswith(s, p) == Len(s) >= Len(p) /\ SubSeq(s, 1, Len(p)) = p

contains(s, p) ==
  \E k \in 1..(Len(s) - Len(p) + 1) : SubSeq(s, k, k + Len(p) - 1) = p

RECURSIVE split(_, _)
split(s, sep) ==
  LET idx == {k \in 1..Len(s) : s[k] = sep}
  IN  IF idx = {} THEN <<s>>
      ELSE <<SubSeq(s, 1, SetMin(idx) - 1)>> \o split(Drop(s, SetMin(idx)), sep)

RECURSIVE join(_, _)
join(parts, sep) ==
  IF parts = <<>> THEN <<>>
  ELSE IF Len(parts) = 1 THEN parts[1]
  ELSE parts[1] \o <<sep>> \o join(Tail(parts), sep)

\* str.replace of the character c by rep, the text taken by halves.
RECURSIVE replace(_, _, _)
replace(s, c, rep) ==
  IF s = <<>> THEN <<>>
  ELSE IF Len(s) = 1 THEN (IF s[1] = c THEN rep ELSE s)
  ELSE LET h == Len(s) \div 2
       IN  replace(SubSeq(s, 1, h), c, rep) \o replace(Drop(s, h), c, rep)

(***************************************************************************)
(* escape_xml and apply_inline_formatting.                                 *)
(***************************************************************************)
\* escape_xml without the replacement of '<' and '>'.
escape_xml_amp_only(text) == replace(text, "&", <<"&", "a", "m", "p", ";">>)

escape_xml(text) ==
  replace(replace(replace(text, "&", <<"&", "a", "m", "p", ";">>),
                  "<", <<"&", "l", "t", ";">>),
          ">", <<"&", "g", "t", ";">>)

\* The grave accent, written by code point.
Backtick == "U0060"

FontOpen == "<font face=\"Courier\" color=\"#818cf8\">"

StarsAt(text, p, k) ==
  p + k - 1 <= Len(text) /\ \A j \in p..(p + k - 1) : text[j] = "*"

\* re.sub(r'\*{k}(.+?)\*{k}', open \1 close, text) from position pos on: the
\* leftmost opening run that has a closing run at least one character later,
\* closed by the nearest such run, then on from behind the match.
RECURSIVE sub_emphasis(_, _, _, _, _)
sub_emphasis(text, pos, k, open, close) ==
  LET closers(p) == {q \in (p + k + 1)..Len(text) : StarsAt(text, q, k)}
      cands == {p \in pos..Len(text) : StarsAt(text, p, k) /\ closers(p) # {}}
  IN  IF cands = {} THEN SubSeq(text, pos, Len(text))
      ELSE LET p == SetMin(cands)
               q == SetMin(closers(p))
           IN  SubSeq(text, pos, p - 1) \o open \o SubSeq(text, p + k, q - 1)
               \o close \o sub_emphasis(text, q + k, k, open, close)

\* re.sub of a backtick, one or more non-backtick characters and a backtick
\* by <font ...>\1</font>, from position pos on.
RECURSIVE sub_code(_, _)
sub_code(text, pos) ==
  LET ticks(p) == {q \in (p + 1)..Len(text) : text[q] = Backtick}
      cands == {p \in pos..Len(text) :
                  text[p] = Backtick /\ ticks(p) # {} /\ SetMin(ticks(p)) >= p + 2}
  IN  IF cands = {} THEN SubSeq(text, pos, Len(text))
      ELSE LET p == SetMin(cands)
               q == SetMin(ticks(p))
           IN  SubSeq(text, pos, p - 1) \o <<FontOpen>>
               \o SubSeq(text, p + 1, q - 1) \o <<"</font>">>
               \o sub_code(text, q + 1)

apply_inline_formatting(text) ==
  LET t1 == sub_emphasis(text, 1, 3, <<"<b>", "<i>">>, <<"</i>", "</b>">>)
      t2 == sub_emphasis(t1, 1, 2, <<"<b>">>, <<"</b>">>)
      t3 == sub_emphasis(t2, 1, 1, <<"<i>">>, <<"</i>">>)
  IN  sub_code(t3, 1)

(***************************************************************************)
(* Flowables of the story.                                                 *)
(***************************************************************************)
Flowable(kind, style, text, data, colWidths) ==
  [kind |-> kind, style |-> style, text |-> text, data |-> data,
   colWidths |-> colWidths]

Paragraph(text, style) == Flowable("Paragraph", style, text, <<>>, <<>>)

Preformatted(text, style) == Flowable("Preformatted", style, text, <<>>, <<>>)

Spacer(height) == Flowable("Spacer", height, <<>>, <<>>, <<>>)

HRFlowable == Flowable("HRFlowable", "", <<>>, <<>>, <<>>)

Table(data, colWidths) == Flowable("Table", "", <<>>, data, colWidths)

None == Flowable("None", "", <<>>, <<>>, <<>>)

ZeroDivisionError == Flowable("ZeroDivisionError", "", <<>>, <<>>, <<>>)

(***************************************************************************)
(* parse_table and build_table_flowable.                                   *)
(***************************************************************************)
IsSeparatorCell(c) == Len(c) >= 1 /\ \A k \in 1..Len(c) : c[k] \in {"-", ":"}

table_cells(line) ==
  LET parts == split(line, "|")
      inner == SubSeq(parts, 2, Len(parts) - 1)
  IN  [k \in 1..Len(inner) |-> strip(inner[k])]

\* The separator test on the first cell alone.
IsSeparatorRow_first(cells) == cells # <<>> /\ IsSeparatorCell(cells[1])

IsSeparatorRow(cells) ==
  cells # <<>> /\ \A k \in 1..Len(cells) : IsSeparatorCell(cells[k])

RECURSIVE parse_table(_)
parse_table(ls) ==
  IF ls = <<>> THEN <<>>
  ELSE LET line == strip(Head(ls))
           rest == parse_table(Tail(ls))
       IN  IF startswith(line, <<"|">>)
           THEN (IF IsSeparatorRow(table_cells(line)) THEN rest
                 ELSE <<table_cells(line)>> \o rest)
           ELSE rest

\* No padding of short rows.
pad_row_none(row, n) == row

pad_row(row, n) ==
  IF Len(row) < n THEN row \o [k \in 1..(n - Len(row)) |-> <<>>] ELSE row

cell_row(row, n) ==
  LET padded == pad_row(row, n)
      kept   == SubSeq(padded, 1, IF Len(padded) < n THEN Len(padded) ELSE n)
  IN  [k \in 1..Len(kept) |->
         Paragraph(apply_inline_formatting(escape_xml(kept[k])), "table_cell")]

table_data(rows) ==
  LET header == rows[1]
      body   == Tail(rows)
      header_row == [k \in 1..Len(header) |->
                       Paragraph(escape_xml(header[k]), "table_header")]
  IN  <<header_row>> \o [k \in 1..Len(body) |-> cell_row(body[k], Len(header))]

\* Column widths in hundredths of an inch.
col_widths(num_cols) ==
  IF num_cols = 2 THEN <<220, 430>>
  ELSE IF num_cols = 3 THEN <<150, 250, 250>>
  ELSE IF num_cols = 6 THEN <<40, 120, 180, 80, 70, 70>>
  ELSE [k \in 1..num_cols |-> ContentWidth \div num_cols]

build_table_flowable(rows) ==
  IF rows = <<>> THEN None
  ELSE IF Len(rows[1]) = 0 THEN ZeroDivisionError
  ELSE Table(table_data(rows), col_widths(Len(rows[1])))

(***************************************************************************)
(* The tests of the classification loop on the stripped line.              *)
(***************************************************************************)
Fence == <<Backtick, Backtick, Backtick>>

\* The table test without the second delimiter.
IsTableLine_one_pipe(stripped) == startswith(stripped, <<"|">>)

IsTableLine(stripped) ==
  startswith(stripped, <<"|">>) /\ contains(Drop(stripped, 1), <<"|">>)

\* re.match(r'^-{3,}$') or re.match(r'^\*{3,}$')
IsHorizontalRule(stripped) ==
  /\ Len(stripped) >= 3
  /\ \/ \A k \in 1..Len(stripped) : stripped[k] = "-"
     \/ \A k \in 1..Len(stripped) : stripped[k] = "*"

IsArtDivider(stripped) ==
  /\ startswith(stripped, <<"#">>)
  /\ \/ contains(stripped, <<"U2550">>)
     \/ contains(stripped, <<"U2588", "U2588">>)
     \/ contains(stripped, <<"U2554">>)
     \/ contains(stripped, <<"U255A">>)

\* The banner test with the box-drawing characters alone.
IsBannerDivider_box(stripped) ==
  /\ startswith(stripped, <<"#">>)
  /\ \E k \in 3..Len(stripped) :
        /\ \A j \in 2..(k - 1) : stripped[j] \in WS
        /\ stripped[k] \in BoxChars
  /\ ~startswith(stripped, <<"#", "#">>)

\* re.match(r'^#\s+[A-Z...]') and not startswith('##')
IsBannerDivider(stripped) ==
  /\ startswith(stripped, <<"#">>)
  /\ \E k \in 3..Len(stripped) :
        /\ \A j \in 2..(k - 1) : stripped[j] \in WS
        /\ stripped[k] \in Upper \cup BoxChars
  /\ ~startswith(stripped, <<"#", "#">>)

IsHeading1(stripped) ==
  startswith(stripped, <<"#", " ">>) /\ ~startswith(stripped, <<"#", "#", " ">>)

IsHeading2(stripped) == startswith(stripped, <<"#", "#", " ">>)

IsHeading3(stripped) == startswith(stripped, <<"#", "#", "#", " ">>)

IsBlockquote(stripped) == startswith(stripped, <<">">>)

\* re.match(r'^[-*]\s')
IsBullet(stripped) ==
  Len(stripped) >= 2 /\ stripped[1] \in {"-", "*"} /\ stripped[2] \in WS

\* The length of the match of r'^(\d+)\.\s', 0 when there is none.
NumberedMatchLen(stripped) ==
  LET nondigit == {k \in 1..Len(stripped) : stripped[k] \notin Digits}
      d == IF nondigit = {} THEN Len(stripped) ELSE SetMin(nondigit) - 1
  IN  IF d >= 1 /\ Len(stripped) >= d + 2 /\ stripped[d + 1] = "."
         /\ stripped[d + 2] \in WS
      THEN d + 2 ELSE 0

IsStarFootnote(stripped) == startswith(stripped, <<"U2605">>)

\* The branch of the loop body that line takes: the first test that matches.
BranchOf(line, incode) ==
  LET stripped == strip(line)
  IN  IF startswith(stripped, Fence)
        THEN (IF incode THEN "code_end" ELSE "code_start")
      ELSE IF incode THEN "code_line"
      ELSE IF IsTableLine(stripped) THEN "table_line"
      ELSE IF stripped = <<>> THEN "blank"
      ELSE IF IsHorizontalRule(stripped) THEN "rule"
      ELSE IF IsArtDivider(stripped) THEN "art_divider"
      ELSE IF IsBannerDivider(stripped) THEN "banner_divider"
      ELSE IF IsHeading1(stripped) THEN "h1"
      ELSE IF IsHeading2(stripped) THEN "h2"
      ELSE IF IsHeading3(stripped) THEN "h3"
      ELSE IF IsBlockquote(stripped) THEN "blockquote"
      ELSE IF IsBullet(stripped) THEN "bullet"
      ELSE IF NumberedMatchLen(stripped) > 0 THEN "numbered"
      ELSE IF IsStarFootnote(stripped) THEN "star"
      ELSE "paragraph"

(***************************************************************************)
(* Closing a code block: join, escape, wrap at 95, join.                   *)
(***************************************************************************)
\* One cut at the width instead of repeated cuts.
wrap_line_once(cl) ==
  IF Len(cl) > WrapWidth
  THEN <<SubSeq(cl, 1, WrapWidth), Drop(cl, WrapWidth)>>
  ELSE <<cl>>

RECURSIVE wrap_line(_)
wrap_line(cl) ==
  IF Len(cl) > WrapWidth
  THEN <<SubSeq(cl, 1, WrapWidth)>> \o wrap_line(Drop(cl, WrapWidth))
  ELSE <<cl>>

RECURSIVE wrap_lines(_)
wrap_lines(cls) ==
  IF cls = <<>> THEN <<>> ELSE wrap_line(Head(cls)) \o wrap_lines(Tail(cls))

wrapped_code(buffer) == wrap_lines(split(escape_xml(join(buffer, "\n")), "\n"))

code_flowable(buffer) == Preformatted(join(wrapped_code(buffer), "\n"), "code")
(***************************************************************************)
(* The input lines the documents are drawn from: one line at least for     *)
(* each branch of the loop body, with the reserved characters and each     *)
(* inline markup among them.                                               *)
(***************************************************************************)
LineFence == <<Backtick, Backtick, Backtick>>

LineFenceInfo == <<Backtick, Backtick, Backtick, "p", "y">>

LineBlank == <<>>

LineTableHead == <<"|", " ", "a", " ", "|", "b", "|">>

LineTableSep == <<"|", "-", "|", ":", "-", "|">>

LineTableShort == <<"|", "*", "c", "*", "<", "|">>

LinePipe == <<"|">>

LineRule == <<"-", "-", "-">>

LineBanner == <<"#", " ", "T", "i", "t", "l", "e">>

LineArt == <<"#", "#", " ", "U2550">>

LineH1 == <<"#", " ", "t", "&">>

LineH2 == <<"#", "#", " ", "B">>

LineH3 == <<"#", "#", "#", " ", "c">>

LineQuote == <<">", " ", "*", "*", "q", "*", "*">>

LineBullet == <<"-", " ", Backtick, "b", Backtick>>

LineNumbered == <<"1", "2", ".", " ", "*", "*", "*", "n", "*", "*", "*">>

LineStar == <<"U2605", "s">>

LinePara == <<"H", "e", "l", "l", "o", " ", "*", "w", "o", "r", "l", "d", "*", ".">>

LineLiteralTag == <<" ", "<", "b", ">">>

\* A line of 200 characters, and a line of 95 with a reserved character.
LineLong == Rep("x", 200)

LineLongAmp == Rep("x", 94) \o <<"&">>

LinePool ==
  {LineFence, LineFenceInfo, LineBlank, LineTableHead,
   LineTableSep, LineTableShort, LinePipe, LineRule,
   LineBanner, LineArt, LineH1, LineH2,
   LineH3, LineQuote, LineBullet, LineNumbered,
   LineStar, LinePara, LineLiteralTag,
   LineLong, LineLongAmp}

BoundedSeq(S, n) == UNION {[1..k -> S] : k \in 0..n}

\* Longer documents: "# Title\n\nHello *world*.\n" split at the newlines, a
\* fenced code block with a line of 200 characters, a table of two columns
\* with a separator row and a short data row, and mixes of table runs and
\* fences.
ScenarioTitle == <<LineBanner, LineBlank, LinePara, LineBlank>>

ScenarioCode == <<LineFence, LinePara, LineLong, LineBlank, LineFence>>

ScenarioTable == <<LineTableHead, LineTableSep, LineTableShort, LinePara>>

ScenarioDocs ==
  {ScenarioTitle, ScenarioCode, ScenarioTable,
   <<LineTableHead, LineTableSep, LineTableShort>>,
   <<LineTableHead, LineTableShort, LineBlank, LineTableHead, LineRule>>,
   <<LineTableSep, LineTableSep, LinePara>>,
   <<LineTableHead, LineFence, LineTableHead, LineFenceInfo, LineTableHead>>,
   <<LineFence, LineLiteralTag, LineBlank, LineFence>>}

\* Each line of the pool alone in a fenced code block, and each behind a
\* table row.
FencedDocs == {<<LineFence, l, LineFence>> : l \in LinePool}

TableDocs == {<<LineTableHead, l, LinePara>> : l \in LinePool}

\* split('\n') gives one line at least.
Docs ==
  (BoundedSeq(LinePool, MaxLines) \ {<<>>}) \cup ScenarioDocs
    \cup FencedDocs \cup TableDocs

TableLinePool ==
  {LineTableHead, LineTableSep, LineTableShort, LinePipe, LinePara,
   <<"|", "d", "|", "e", "|", "f", "|">>, <<"|", "-", "|", "|">>,
   <<" ", "|", ":", "|", " ">>, <<"|", "|">>}

(***************************************************************************)
(* convert_md_to_pdf: the state before the loop, one action for each       *)
(* branch of the loop body, and the flush after the loop.                  *)
(***************************************************************************)
HarnessOff ==
  h_lines = <<>> /\ h_rows = <<>> /\ h_tbl = None /\ h_pc = "off"

Init ==
  /\ lines \in Docs
  /\ i = 0
  /\ in_code_block = FALSE
  /\ code_lines = <<>>
  /\ in_table = FALSE
  /\ table_lines = <<>>
  /\ story = <<>>
  /\ branch = "start"
  /\ pc = "loop"
  /\ HarnessOff

line == lines[i + 1]

stripped == strip(line)

AtLine(name) ==
  pc = "loop" /\ i < Len(lines) /\ BranchOf(line, in_code_block) = name

\* parse_table and build_table_flowable on the buffered table lines.
tbl == build_table_flowable(parse_table(table_lines))

\* What a flush of the table buffer appends: the table when there is one,
\* and inside the loop a spacer behind it.
flushed_table(spacer) ==
  IF in_table /\ tbl.kind = "Table"
  THEN <<tbl>> \o (IF spacer THEN <<Spacer("6")>> ELSE <<>>)
  ELSE <<>>

Raise ==
  /\ pc' = "crashed"
  /\ UNCHANGED <<lines, i, in_code_block, code_lines, in_table, table_lines,
                 story, branch>>

CodeFenceClose ==
  /\ AtLine("code_end")
  /\ story' = Append(story, code_flowable(code_lines))
  /\ code_lines' = <<>>
  /\ in_code_block' = FALSE
  /\ i' = i + 1
  /\ branch' = "code_end"
  /\ UNCHANGED <<lines, in_table, table_lines, pc>>
  /\ UNCHANGED harness_vars

\* The opening fence without the flush of an active table.
CodeFenceOpen_no_flush ==
  /\ AtLine("code_start")
  /\ in_code_block' = TRUE
  /\ i' = i + 1
  /\ branch' = "code_start"
  /\ UNCHANGED <<lines, code_lines, in_table, table_lines, story, pc>>
  /\ UNCHANGED harness_vars

CodeFenceOpen ==
  /\ AtLine("code_start")
  /\ IF in_table /\ tbl = ZeroDivisionError
     THEN Raise
     ELSE /\ story' = story \o flushed_table(TRUE)
          /\ table_lines' = (IF in_table THEN <<>> ELSE table_lines)
          /\ in_table' = FALSE
          /\ in_code_block' = TRUE
          /\ i' = i + 1
          /\ branch' = "code_start"
          /\ UNCHANGED <<lines, code_lines, pc>>
  /\ UNCHANGED harness_vars

\* The code line appended stripped.
CodeLine_stripped ==
  /\ AtLine("code_line")
  /\ code_lines' = Append(code_lines, stripped)
  /\ i' = i + 1
  /\ branch' = "code_line"
  /\ UNCHANGED <<lines, in_code_block, in_table, table_lines, story, pc>>
  /\ UNCHANGED harness_vars

CodeLine ==
  /\ AtLine("code_line")
  /\ code_lines' = Append(code_lines, line)
  /\ i' = i + 1
  /\ branch' = "code_line"
  /\ UNCHANGED <<lines, in_code_block, in_table, table_lines, story, pc>>
  /\ UNCHANGED harness_vars

TableLine ==
  /\ AtLine("table_line")
  /\ in_table' = TRUE
  /\ table_lines' = Append(IF in_table THEN table_lines ELSE <<>>, stripped)
  /\ i' = i + 1
  /\ branch' = "table_line"
  /\ UNCHANGED <<lines, in_code_block, code_lines, story, pc>>
  /\ UNCHANGED harness_vars

\* The line's own flowables appended before the flushed table.
Emit_line_first(name, flowables) ==
  /\ AtLine(name)
  /\ IF in_table /\ tbl = ZeroDivisionError
     THEN Raise
     ELSE /\ story' = story \o flowables \o flushed_table(TRUE)
          /\ table_lines' = (IF in_table THEN <<>> ELSE table_lines)
          /\ in_table' = FALSE
          /\ i' = i + 1
          /\ branch' = name
          /\ UNCHANGED <<lines, in_code_block, code_lines, pc>>
  /\ UNCHANGED harness_vars

\* A line that is no fence, no code line and no table line: an active table
\* is flushed first, then the line's own flowables are appended.
Emit(name, flowables) ==
  /\ AtLine(name)
  /\ IF in_table /\ tbl = ZeroDivisionError
     THEN Raise
     ELSE /\ story' = story \o flushed_table(TRUE) \o flowables
          /\ table_lines' = (IF in_table THEN <<>> ELSE table_lines)
          /\ in_table' = FALSE
          /\ i' = i + 1
          /\ branch' = name
          /\ UNCHANGED <<lines, in_code_block, code_lines, pc>>
  /\ UNCHANGED harness_vars

formatted(text) == apply_inline_formatting(escape_xml(text))

BlankLine == Emit("blank", <<>>)

HorizontalRule == Emit("rule", <<Spacer("6"), HRFlowable>>)

ArtDivider ==
  Emit("art_divider",
       <<Paragraph(escape_xml(strip(lstrip_char(stripped, "#"))),
                   "divider_text")>>)

BannerDivider ==
  Emit("banner_divider",
       <<Paragraph(escape_xml(strip(lstrip_char(stripped, "#"))),
                   "divider_text")>>)

Heading1 ==
  Emit("h1", <<Paragraph(formatted(strip(Drop(stripped, 2))), "h1")>>)

Heading2 ==
  Emit("h2", <<Spacer("8"),
               Paragraph(formatted(strip(Drop(stripped, 3))), "h2")>>)

Heading3 ==
  Emit("h3", <<Paragraph(formatted(strip(Drop(stripped, 4))), "h3")>>)

Blockquote ==
  Emit("blockquote",
       <<Paragraph(formatted(strip(lstrip_char(stripped, ">"))),
                   "blockquote")>>)

Bullet ==
  Emit("bullet",
       <<Paragraph(<<"&", "b", "u", "l", "l", ";", " ">>
                     \o formatted(strip(Drop(stripped, 2))), "bullet")>>)

Numbered ==
  LET n == NumberedMatchLen(stripped)
  IN  Emit("numbered",
           <<Paragraph(SubSeq(stripped, 1, n - 2) \o <<".", " ">>
                         \o formatted(strip(Drop(stripped, n))), "bullet")>>)

StarFootnote == Emit("star", <<Paragraph(formatted(stripped), "blockquote")>>)

RegularParagraph == Emit("paragraph", <<Paragraph(formatted(stripped), "body")>>)

\* After the loop: the flush of a remaining table, then doc.build.
FlushRemainingTable ==
  /\ pc = "loop" /\ i >= Len(lines)
  /\ IF in_table /\ tbl = ZeroDivisionError
     THEN Raise
     ELSE /\ story' = story \o flushed_table(FALSE)
          /\ pc' = "done"
          /\ UNCHANGED <<lines, i, in_code_block, code_lines, in_table,
                         table_lines, branch>>
  /\ UNCHANGED harness_vars

Next ==
  \/ CodeFenceClose \/ CodeFenceOpen \/ CodeLine \/ TableLine
  \/ BlankLine \/ HorizontalRule \/ ArtDivider \/ BannerDivider
  \/ Heading1 \/ Heading2 \/ Heading3 \/ Blockquote \/ Bullet \/ Numbered
  \/ StarFootnote \/ RegularParagraph \/ FlushRemainingTable

Spec == Init /\ [][Next]_vars

(***************************************************************************)
(* parse_table and build_table_flowable on any list of lines.              *)
(***************************************************************************)
ClassifierOff ==
  /\ lines = <<>> /\ i = 0 /\ in_code_block = FALSE /\ code_lines = <<>>
  /\ in_table = FALSE /\ table_lines = <<>> /\ story = <<>>
  /\ branch = "start" /\ pc = "off"

InitTable ==
  /\ ClassifierOff
  /\ h_lines \in BoundedSeq(TableLinePool, MaxTableLines)
  /\ h_rows = <<>>
  /\ h_tbl = None
  /\ h_pc = "parse"

ParseTable ==
  /\ h_pc = "parse"
  /\ h_rows' = parse_table(h_lines)
  /\ h_pc' = "build"
  /\ UNCHANGED <<h_lines, h_tbl>>
  /\ UNCHANGED classifier_vars

BuildTable ==
  /\ h_pc = "build"
  /\ h_tbl' = build_table_flowable(h_rows)
  /\ h_pc' = "done"
  /\ UNCHANGED <<h_lines, h_rows>>
  /\ UNCHANGED classifier_vars

NextTable == ParseTable \/ BuildTable

SpecTable == InitTable /\ [][NextTable]_vars
(***************************************************************************)
(* Properties.                                                             *)
(***************************************************************************)
Last(s) == s[Len(s)]

NumTables(s) == Cardinality({k \in 1..Len(s) : s[k].kind = "Table"})

\* The segments the claims expect of a line wrapped at the width: 
\* ceil(n / WrapWidth) of them, one when the line is empty.
Chunks(l) ==
  LET n == IF Len(l) = 0 THEN 1 ELSE (Len(l) + WrapWidth - 1) \div WrapWidth
  IN  [k \in 1..n |->
         SubSeq(l, WrapWidth * (k - 1) + 1,
                IF WrapWidth * k < Len(l) THEN WrapWidth * k ELSE Len(l))]

RECURSIVE AllChunks(_)
AllChunks(ls) ==
  IF ls = <<>> THEN <<>> ELSE Chunks(Head(ls)) \o AllChunks(Tail(ls))

EscapedLines(ls) == [k \in 1..Len(ls) |-> escape_xml(ls[k])]

ClosesCode == pc = "loop" /\ in_code_block /\ i' = i + 1 /\ ~in_code_block'

\* C1: a code block still open when the last line has been consumed is not
\* dropped: when the conversion is done with the code mode still active, the
\* last flowable of the story is the code block of the buffered lines.
C1_TrailingCodeBlockKept ==
  (pc = "done" /\ in_code_block) =>
    (story # <<>> /\ Last(story) = code_flowable(code_lines))

TitleText == <<"T", "i", "t", "l", "e">>

HelloText ==
  <<"H", "e", "l", "l", "o", " ", "<i>", "w", "o", "r", "l", "d", "</i>", ".">>

\* C2 as stated: "# Title", blank, "Hello *world*.", blank gives a level 1
\* heading "Title" in the h1 style, then a paragraph with "world" in italics.
C2_TitleIsHeading ==
  (lines = ScenarioTitle /\ pc = "done") =>
    story = <<Paragraph(TitleText, "h1"), Paragraph(HelloText, "body")>>

\* C2 as amended: the same input gives exactly two flowables, a divider
\* banner "Title" in the divider_text style (the line starts with one '#',
\* white space and an upper-case letter), then a body paragraph with "world"
\* in italics; the blank lines give nothing.
C2_TitleIsDivider ==
  (lines = ScenarioTitle /\ pc = "done") =>
    story = <<Paragraph(TitleText, "divider_text"),
              Paragraph(HelloText, "body")>>

C2_Witness == lines = ScenarioTitle /\ pc = "done" /\ Len(story) = 2

\* The maximal run of consecutive table lines that ends at the n-th line.
TableRun(n) ==
  LET j == SetMin({a \in 1..n :
                     \A m \in a..n : IsTableLine(strip(lines[m]))})
  IN  [m \in 1..(n - j + 1) |-> strip(lines[j + m - 1])]

CellsOf(l) ==
  LET parts == split(strip(l), "|")
  IN  [k \in 1..(Len(parts) - 2) |-> strip(parts[k + 1])]

DashesAndColons(row) ==
  /\ Len(row) >= 1
  /\ \A k \in 1..Len(row) :
        Len(row[k]) >= 1 /\ \A m \in 1..Len(row[k]) : row[k][m] \in {"-", ":"}

HasDataRow(run) == \E m \in 1..Len(run) : ~DashesAndColons(CellsOf(run[m]))

\* C3: the lines the classifier takes as table lines are buffered run by
\* run: a table line appends nothing to the story and leaves the buffer
\* holding exactly the maximal run of table lines that ends with it; the step
\* that ends a run (a line that is no table line, a blank line, an opening
\* fence, the end of the input) appends exactly one Table, that of the run,
\* when the run has a row that is no separator row and none otherwise, puts
\* it before whatever the ending line itself appends, and leaves no line of
\* the run in the buffer.
C3_Step ==
  /\ (i' = i + 1 /\ branch' = "table_line") =>
        (story' = story /\ table_lines' = TableRun(i'))
  /\ (pc = "loop" /\ branch = "table_line" /\ pc' # "crashed"
        /\ ~(i' = i + 1 /\ branch' = "table_line")) =>
        LET expected == build_table_flowable(parse_table(TableRun(i)))
        IN  /\ Len(story') >= Len(story)
            /\ SubSeq(story', 1, Len(story)) = story
            /\ IF HasDataRow(TableRun(i))
               THEN /\ Len(story') > Len(story)
                    /\ expected.kind = "Table"
                    /\ story'[Len(story) + 1] = expected
                    /\ NumTables(story') = NumTables(story) + 1
               ELSE NumTables(story') = NumTables(story)
            /\ (pc' = "loop" => (~in_table' /\ table_lines' = <<>>))

C3_TableRunFlushedOnce == [][C3_Step]_vars

C3_Witness ==
  /\ lines = ScenarioTable /\ pc = "done"
  /\ Len(story) = 3
  /\ story[1].kind = "Table" /\ Len(story[1].data) = 2
  /\ story[2].kind = "Spacer"
  /\ story[3].kind = "Paragraph"

PipeStarted(l) == startswith(strip(l), <<"|">>)

\* C4: parse_table returns no separator row (a row of one or more cells,
\* each a non-empty string of '-' and ':'), and returns the cells of every
\* other pipe-started line, in the order of the input.
C4_NoSeparatorRow ==
  (h_pc \in {"build", "done"}) =>
    LET kept == SelectSeq(h_lines,
                  LAMBDA l : PipeStarted(l) /\ ~DashesAndColons(CellsOf(l)))
    IN  /\ \A k \in 1..Len(h_rows) : ~DashesAndColons(h_rows[k])
        /\ h_rows = [k \in 1..Len(kept) |-> CellsOf(kept[k])]

C4_Witness ==
  /\ h_pc = "build"
  /\ Len(h_lines) = 3 /\ h_lines[2] = LineTableSep
  /\ Len(h_rows) = 2

RenderedCell(r, c) == IF r = 1 THEN escape_xml(c) ELSE formatted(c)

\* C5: every row of the grid build_table_flowable produces has as many
\* cells as the header row: the k-th cell of a row is the row's k-th cell
\* when it has one and an empty cell otherwise, and cells beyond the header's
\* width are dropped.
C5_RowsMatchHeader ==
  (h_pc = "done" /\ h_tbl.kind = "Table") =>
    /\ Len(h_tbl.data) = Len(h_rows)
    /\ \A r \in 1..Len(h_rows) :
          /\ Len(h_tbl.data[r]) = Len(h_rows[1])
          /\ \A c \in 1..Len(h_rows[1]) :
                h_tbl.data[r][c].text =
                  (IF c <= Len(h_rows[r]) THEN RenderedCell(r, h_rows[r][c])
                   ELSE <<>>)

C5_Witness ==
  /\ h_pc = "done" /\ h_tbl.kind = "Table"
  /\ \E r \in 1..Len(h_rows) : Len(h_rows[r]) < Len(h_rows[1])
  /\ \E r \in 1..Len(h_rows) : Len(h_rows[r]) > Len(h_rows[1])

\* C6 as stated: when a code block closes, every line of the emitted text
\* is at most 95 characters long and each buffered source line of n
\* characters appears as ceil(n/95) segments (one when n = 0) that
\* concatenate to that line.
C6_SourceLineSegments ==
  [][ClosesCode =>
       /\ Last(story').kind = "Preformatted"
       /\ \A k \in 1..Len(split(Last(story').text, "\n")) :
             Len(split(Last(story').text, "\n")[k]) <= WrapWidth
       /\ Last(story').text = join(AllChunks(code_lines), "\n")]_vars

\* C6 as amended: when a code block closes, every line of the emitted text
\* is at most 95 characters long and each buffered source line appears,
\* with its '&', '<' and '>' escaped, as ceil(n/95) segments (one when n = 0)
\* that concatenate to the escaped line, n being the length of the escaped
\* line; a line of 200 characters none of which is reserved is split into
\* exactly three segments.
C6_EscapedLineSegments ==
  [][ClosesCode =>
       /\ Last(story').kind = "Preformatted"
       /\ Len(story') = Len(story) + 1
       /\ \A k \in 1..Len(split(Last(story').text, "\n")) :
             Len(split(Last(story').text, "\n")[k]) <= WrapWidth
       /\ Last(story').text = join(AllChunks(EscapedLines(code_lines)), "\n")
       /\ (code_lines = <<LineLong>> =>
             Len(split(Last(story').text, "\n")) = 3)]_vars

C6_Witness ==
  /\ lines = <<LineFence, LineLong, LineFence>> /\ pc = "done"
  /\ Len(story) = 1 /\ story[1].kind = "Preformatted"
  /\ Len(split(story[1].text, "\n")) = 3

Entities ==
  {<<"a", "m", "p", ";">>, <<"l", "t", ";">>, <<"g", "t", ";">>,
   <<"b", "u", "l", "l", ";">>}

NoRawAngle(text) == \A k \in 1..Len(text) : text[k] \notin {"<", ">"}

NoRawReserved(text) ==
  /\ NoRawAngle(text)
  /\ \A k \in 1..Len(text) :
        text[k] = "&" =>
          \E e \in Entities : SubSeq(text, k + 1, k + Len(e)) = e

\* C7: no text handed to the renderer (a paragraph of any style, a code
\* block, a table cell) holds a '<' or '>' of the source: each is escaped,
\* so the only markup is the tags the inline formatter inserted, and in
\* paragraphs and cells every '&' starts an entity; the source line "<b>"
\* becomes the paragraph "&lt;b&gt;", with no bold tag.
C7_EscapedBeforeMarkup ==
  /\ \A k \in 1..Len(story) :
        /\ story[k].kind = "Paragraph" => NoRawReserved(story[k].text)
        /\ story[k].kind = "Preformatted" => NoRawAngle(story[k].text)
        /\ \A r \in 1..Len(story[k].data) :
              \A c \in 1..Len(story[k].data[r]) :
                 NoRawReserved(story[k].data[r][c].text)
  /\ (pc = "loop" /\ branch = "paragraph" /\ lines[i] = LineLiteralTag) =>
        Last(story) =
          Paragraph(<<"&", "l", "t", ";", "b", "&", "g", "t", ";">>, "body")

C7_Witness ==
  /\ lines = ScenarioTable /\ pc = "done"
  /\ story[1].kind = "Table"
  /\ story[1].data[2][1].text = <<"<i>", "c", "</i>", "&", "l", "t", ";">>

\* C8: a flush of the table buffer never fails: the conversion never stops
\* on the division by the column count, every row parsed from the buffered
\* lines has a cell, the builder gives nothing or a table whose header has a
\* column, and as long as every table line consumed is a separator row the
\* story holds no Table.
C8_FlushNeverFails ==
  /\ pc # "crashed"
  /\ in_table =>
        /\ \A r \in 1..Len(parse_table(table_lines)) :
              Len(parse_table(table_lines)[r]) >= 1
        /\ \/ tbl = None
           \/ /\ tbl.kind = "Table"
              /\ Len(tbl.data[1]) >= 1
              /\ Len(tbl.colWidths) = Len(tbl.data[1])
  /\ (\A m \in 1..i : IsTableLine(strip(lines[m])) =>
                        DashesAndColons(CellsOf(lines[m])))
        => NumTables(story) = 0

C8_Witness ==
  /\ pc = "done" /\ Len(lines) = 2
  /\ lines[1] = LineTableSep /\ lines[2] = LineTableSep
  /\ story = <<>>

\* C9 as stated: in code mode a line that is not the fence marker alone is
\* appended unchanged to the code buffer, does not end the mode and appends
\* nothing to the story.
C9_OnlyBareFenceCloses ==
  [][(pc = "loop" /\ in_code_block /\ i' = i + 1 /\ stripped # Fence) =>
       /\ code_lines' = Append(code_lines, line)
       /\ in_code_block'
       /\ story' = story]_vars

\* C9 as amended: in code mode a line whose stripped text does not start
\* with the fence marker is appended unchanged (not stripped) to the code
\* buffer, does not end the mode and appends nothing to the story, whatever
\* it looks like; a line whose stripped text starts with the fence marker,
\* alone or followed by other text, closes the block.
C9_FencePrefixCloses ==
  [][(pc = "loop" /\ in_code_block /\ i' = i + 1) =>
       IF startswith(stripped, Fence)
       THEN ~in_code_block' /\ code_lines' = <<>>
            /\ Len(story') = Len(story) + 1
       ELSE /\ code_lines' = Append(code_lines, line)
            /\ in_code_block'
            /\ story' = story
            /\ in_table' = in_table /\ table_lines' = table_lines]_vars

C9_Witness ==
  /\ i = 3 /\ in_code_block /\ pc = "loop"
  /\ code_lines = <<LineLiteralTag, LineBlank>>
  /\ story = <<>>

\* C10: at the top of every iteration and after the loop the code mode
\* and the table mode are not both active, the code buffer is empty when the
\* code mode is off and the table buffer is empty when the table mode is off.
C10_BufferModes ==
  (pc \in {"loop", "done"}) =>
    /\ ~(in_code_block /\ in_table)
    /\ (~in_code_block => code_lines = <<>>)
    /\ (~in_table => table_lines = <<>>)

C10_Witness ==
  /\ pc = "loop" /\ in_code_block /\ branch = "code_start"
  /\ NumTables(story) = 1 /\ i >= 2
====
